---- MODULE Spec2Model ----
(***************************************************************************)
(* Model of the native test fixture tertest.cpp: five probe surfaces, the  *)
(* driver routine run_all_tests, the runner thread and the load-time       *)
(* constructor on_library_load.                                            *)
(***************************************************************************)
EXTENDS Integers, Sequences, FiniteSets, TLC

(***************************************************************************)
(* C `int`: 32-bit two's complement.  Signed overflow is undefined         *)
(* behaviour; the outcomes a build produces are the wrapped value or a     *)
(* trap (-ftrapv, sanitizers).                                             *)
(***************************************************************************)
INT_MAX == 2147483647

INT_MIN == -INT_MAX - 1

Abs(n) == IF n < 0 THEN -n ELSE n

\* The mathematical sum a + b is not an int.
AddOverflows(a, b) ==
    \/ b > 0 /\ a > INT_MAX - b
    \/ b < 0 /\ a < INT_MIN - b

\* a + b modulo 2^32, as a signed int, computed without leaving the int range.
WrapAdd(a, b) ==
    IF b > 0 /\ a > INT_MAX - b THEN (a - INT_MAX - 1) + (b - INT_MAX - 1)
    ELSE IF b < 0 /\ a < INT_MIN - b THEN (a + INT_MAX + 1) + (b + INT_MAX + 1)
    ELSE a + b

\* The mathematical product a * b is not an int.
MulOverflows(a, b) ==
    IF a = 0 \/ b = 0 THEN FALSE
    ELSE IF a > 0 /\ b > 0 THEN a > INT_MAX \div b
    ELSE IF a > 0 /\ b < 0 THEN b < (INT_MIN + a - 1) \div a
    ELSE IF a < 0 /\ b > 0 THEN a < (INT_MIN + b - 1) \div b
    ELSE a = INT_MIN \/ b = INT_MIN \/ (-a) > INT_MAX \div (-b)

\* The 16-bit limbs of an int's two's-complement bit pattern.
Lo16(a) == a % 65536

Hi16(a) == (a \div 65536) % 65536

\* (x * y) modulo 2^16 for limbs x, y, and the carry (x * y) \div 2^16, with
\* y taken a byte at a time so that no product leaves the int range.
MulLo16(x, y) == (x * (y % 256) + ((x * (y \div 256)) % 256) * 256) % 65536

MulCarry16(x, y) ==
    (x * (y % 256) + ((x * (y \div 256)) % 256) * 256) \div 65536
        + (x * (y \div 256)) \div 256

\* a * b modulo 2^32, as a signed int: schoolbook multiplication on limbs.
WrapMul(a, b) ==
    LET lo == MulLo16(Lo16(a), Lo16(b))
        hi == (MulCarry16(Lo16(a), Lo16(b)) + MulLo16(Hi16(a), Lo16(b))
                 + MulLo16(Lo16(a), Hi16(b))) % 65536
    IN  (IF hi >= 32768 THEN hi - 65536 ELSE hi) * 65536 + lo

\* Outcomes of an int operation whose value modulo 2^32 is `wrapped`: that
\* value, or on overflow (undefined behaviour) that value or a trap.
IntOutcomes(overflows, wrapped) ==
    IF overflows
    THEN {[trap |-> FALSE, val |-> wrapped], [trap |-> TRUE, val |-> 0]}
    ELSE {[trap |-> FALSE, val |-> wrapped]}

IntAdd(a, b) == IntOutcomes(AddOverflows(a, b), WrapAdd(a, b))

IntMul(a, b) == IntOutcomes(MulOverflows(a, b), WrapMul(a, b))

(***************************************************************************)
(* C `double`: IEEE-754 binary64.  A finite value is m * 2^e with m odd    *)
(* (or m = 0, e = 0); the other values are the infinities and NaN.         *)
(***************************************************************************)
Fin(m, e) == [k |-> "fin", m |-> m, e |-> e]

Inf(s) == [k |-> "inf", m |-> s, e |-> 0]

NaN == [k |-> "nan", m |-> 0, e |-> 0]

RECURSIVE BitLen(_)
BitLen(n) == IF n = 0 THEN 0 ELSE 1 + BitLen(n \div 2)

\* Largest binary exponent of a finite double's leading bit.
DBL_MAX_EXP == 1023

\* m * 2^e (m odd) is within the range of finite doubles.
DblInRange(m, e) == BitLen(Abs(m)) - 1 + e <= DBL_MAX_EXP

\* v * 2.0: exact unless the result leaves the finite range.
DblTimes2(v) ==
    IF v.k # "fin" \/ v.m = 0 THEN v
    ELSE IF DblInRange(v.m, v.e + 1) THEN Fin(v.m, v.e + 1)
    ELSE Inf(IF v.m < 0 THEN -1 ELSE 1)

(***************************************************************************)
(* Probe surfaces.  A pointer is NULL or the address of the caller's       *)
(* object; the pointee's value is passed beside it.  Each operator yields  *)
(* the set of outcomes of one call.                                        *)
(***************************************************************************)
NULL == "NULL"

\* Mutant: the operands multiplied instead of added.
test_simple_function_mul(a, b) == IntMul(a, b)

\* int test_simple_function(int a, int b)
test_simple_function(a, b) == IntAdd(a, b)

\* Mutant: the measurement is not doubled.
test_struct_by_pointer_nodouble(p, d) ==
    IF p # NULL
    THEN { IF o.trap
           THEN [trap |-> TRUE, d |-> d]
           ELSE [trap |-> FALSE, d |-> [id |-> o.val, value |-> d.value]]
           : o \in IntAdd(d.id, 1) }
    ELSE {[trap |-> FALSE, d |-> d]}

\* Mutant: no null check; a null pointer is dereferenced and the process is
\* killed.
test_struct_by_pointer_unguarded(p, d) ==
    IF p # NULL
    THEN { IF o.trap
           THEN [trap |-> TRUE, d |-> d]
           ELSE [trap |-> FALSE,
                 d |-> [id |-> o.val, value |-> DblTimes2(d.value)]]
           : o \in IntAdd(d.id, 1) }
    ELSE {[trap |-> TRUE, d |-> d]}

\* void test_struct_by_pointer(TestData* data): outcomes [trap, d], d the
\* pointee after the call.
test_struct_by_pointer(p, d) ==
    IF p # NULL
    THEN { IF o.trap
           THEN [trap |-> TRUE, d |-> d]
           ELSE [trap |-> FALSE,
                 d |-> [id |-> o.val, value |-> DblTimes2(d.value)]]
           : o \in IntAdd(d.id, 1) }
    ELSE {[trap |-> FALSE, d |-> d]}

\* Mutant: another constant is written.
test_pointer_args_999(input_str, p, ov) ==
    [ret |-> input_str, out |-> IF p # NULL THEN 999 ELSE ov]

\* const char* test_pointer_args(const char* input_str, int* out_val):
\* [ret, out], out the pointee after the call.
test_pointer_args(input_str, p, ov) ==
    [ret |-> input_str, out |-> IF p # NULL THEN 500 ELSE ov]

\* TestClass::TestClass(int initial): the object built.
TestClass(initial) == [m_value |-> initial]

\* Mutant: the multiplier is added to the field.
instance_method_add(this, multiplier) == IntAdd(this.m_value, multiplier)

\* int TestClass::instance_method(int multiplier)
instance_method(this, multiplier) == IntMul(this.m_value, multiplier)

\* Mutant: another string is returned.
static_method_other == "Hooked static string"

\* static const char* TestClass::static_method()
static_method == "Original static string"

\* The driver's log lines that state a test's expected result.
ExpectedFmt ==
    <<"[Test 1] Calling test_simple_function(5, 7). Expected result: 12",
      "[Test 2] Expected values after call: id=11, value=85.0",
      "[Test 3] Calling test_pointer_args. Expected out_val: 500",
      "[Test 4] Calling instance.instance_method(10). Expected result: 420",
      "[Test 5] Calling TestClass::static_method(). Expected result: 'Original static string'">>

\* The driver's log lines that report a test's actual result.
ActualFmt ==
    <<"[Test 1] Actual result: %d. (Hook should change this to 35)",
      "[Test 2] Actual values after call: id=%d, value=%f. (Hook should change these to -20, -3.14)",
      "[Test 3] Actual out_val: %d. (Hook should change this to 999)",
      "[Test 4] Actual result: %d. (Hook should change this to 1337)",
      "[Test 5] Actual result: '%s'. (Hook should change this)">>

\* LOG_I(fmt, ...): the line handed to the platform log sink.
LogLine(fmt, args) ==
    [prio |-> "ANDROID_LOG_INFO", tag |-> "NativeTestLib", fmt |-> fmt,
     args |-> args]

(***************************************************************************)
(* State.                                                                  *)
(***************************************************************************)
VARIABLES
    g_test_variable,  \* int g_test_variable
    log,              \* the platform log sink: the lines written, in order
    fault,            \* the process was aborted by a trap
    host,             \* the host process: "running" or "exited"
    loader_pc,        \* the loader's position in on_library_load
    test_thread,      \* std::thread test_thread: "none", "joinable", "detached"
    thread_pc,        \* the runner thread's position
    elapsed,          \* time units passed since the runner's sleep began
    simple_result,    \* locals of run_all_tests (None while out of scope) ...
    data,
    out_val,
    instance,
    instance_result,
    static_result,
    calls,            \* history: per probe surface, the log length at each call
    spawns,           \* history: threads started
    runs,             \* history: entries into run_all_tests
    access,           \* history: <<unit of control, object>> reads and writes
    last,             \* history: the last call made by the external caller
    init0,            \* history: the caller's record as first set up, and
                      \* the value its TestClass object was built with
    nmut,             \* history: calls made on the caller's record
    results           \* history: <<multiplier, result>> of instance_method calls

shared == <<g_test_variable, log, fault, host>>

loaderVars == <<loader_pc, test_thread>>

locals ==
    <<simple_result, data, out_val, instance, instance_result, static_result>>

threadVars == <<thread_pc, elapsed, calls, spawns, runs>>

probeVars == <<last, init0, nmut, results>>

vars == <<shared, loaderVars, locals, threadVars, access, probeVars>>

None == [some |-> FALSE]

Some(v) == [some |-> TRUE, val |-> v]

Probes ==
    {"test_simple_function", "test_struct_by_pointer", "test_pointer_args",
     "instance_method", "static_method"}

NoCall ==
    [op |-> "none", a |-> 0, b |-> 0, p |-> NULL, s |-> NULL, trap |-> FALSE,
     ret |-> 0, rets |-> NULL, rep |-> FALSE,
     pre |-> [g |-> 0, log |-> <<>>, data |-> None, out_val |-> None,
              instance |-> None]]

\* std::chrono::seconds(3)
SleepSeconds == 3

\* How far past its duration the sleep may run.
MaxOversleep == 1

Running == host = "running" /\ ~fault

Log(fmt, args) == log' = Append(log, LogLine(fmt, args))

Touch(unit, objs) == access' = access \cup {<<unit, o>> : o \in objs}

Called(probe) == calls' = [calls EXCEPT ![probe] = Append(@, Len(log))]

Init ==
    /\ g_test_variable = 100
    /\ log = <<>>
    /\ fault = FALSE
    /\ host = "running"
    /\ loader_pc = "unloaded"
    /\ test_thread = "none"
    /\ thread_pc = "none"
    /\ elapsed = 0
    /\ simple_result = None
    /\ data = None
    /\ out_val = None
    /\ instance = None
    /\ instance_result = None
    /\ static_result = None
    /\ calls = [p \in Probes |-> <<>>]
    /\ spawns = 0
    /\ runs = 0
    /\ access = {}
    /\ last = NoCall
    /\ init0 = [data |-> None, initial |-> None]
    /\ nmut = 0
    /\ results = {}

(***************************************************************************)
(* The loader's context: on_library_load, run as a constructor when the    *)
(* host maps the library.                                                  *)
(***************************************************************************)
LoaderAt(l) == Running /\ loader_pc = l

\* The host process maps the library; the constructor is entered.
Load ==
    /\ LoaderAt("unloaded")
    /\ loader_pc' = "L97"
    /\ UNCHANGED <<shared, test_thread, locals, threadVars, access, probeVars>>

LoaderLog ==
    /\ LoaderAt("L97")
    /\ Log("libnativetest.so loaded. Spawning test runner thread.", <<>>)
    /\ loader_pc' = "L98"
    /\ Touch("loader", {"log"})
    /\ UNCHANGED <<g_test_variable, fault, host, test_thread, locals,
                   threadVars, probeVars>>

\* std::thread test_thread(test_runner_thread_func);
LoaderSpawn ==
    /\ LoaderAt("L98")
    /\ test_thread' = "joinable"
    /\ thread_pc' = "L87"
    /\ spawns' = spawns + 1
    /\ loader_pc' = "L99"
    /\ Touch("loader", {"test_thread"})
    /\ UNCHANGED <<shared, locals, elapsed, calls, runs, probeVars>>

\* Mutant: test_thread.join() in place of detach(): the loader waits for the
\* runner thread to end.
LoaderDetach_join ==
    /\ LoaderAt("L99")
    /\ thread_pc = "done"
    /\ test_thread' = "detached"
    /\ loader_pc' = "L100"
    /\ Touch("loader", {"test_thread"})
    /\ UNCHANGED <<shared, locals, threadVars, probeVars>>

\* test_thread.detach();
LoaderDetach ==
    /\ LoaderAt("L99")
    /\ test_thread' = "detached"
    /\ loader_pc' = "L100"
    /\ Touch("loader", {"test_thread"})
    /\ UNCHANGED <<shared, locals, threadVars, probeVars>>

\* Return to the loader; test_thread is destroyed (a joinable std::thread
\* destroyed calls std::terminate).
LoaderReturn ==
    /\ LoaderAt("L100")
    /\ loader_pc' = "loaded"
    /\ fault' = (test_thread = "joinable")
    /\ test_thread' = "none"
    /\ Touch("loader", {"test_thread"})
    /\ UNCHANGED <<g_test_variable, log, host, locals, threadVars, probeVars>>

LoaderNext ==
    \/ Load
    \/ LoaderLog
    \/ LoaderSpawn
    \/ LoaderDetach
    \/ LoaderReturn

(***************************************************************************)
(* The runner thread: test_runner_thread_func.                             *)
(***************************************************************************)
ThreadAt(l) == Running /\ thread_pc = l

\* A thread step that only writes a log line.
LogStep(l, next, fmt, args) ==
    /\ ThreadAt(l)
    /\ Log(fmt, args)
    /\ thread_pc' = next
    /\ UNCHANGED <<g_test_variable, fault, host, loaderVars, elapsed, calls,
                   spawns, runs, probeVars>>

ThreadStartLog ==
    /\ LogStep("L87", "L89", "Test runner thread started. Waiting...", <<>>)
    /\ Touch("thread", {"log"})
    /\ UNCHANGED locals

\* Time passes while the runner is in sleep_for.
Tick ==
    /\ ThreadAt("L89")
    /\ elapsed < SleepSeconds + MaxOversleep
    /\ elapsed' = elapsed + 1
    /\ UNCHANGED <<shared, loaderVars, locals, thread_pc, calls, spawns, runs,
                   access, probeVars>>

\* Mutant: the runner does not wait for the sleep's duration.
Wake_early ==
    /\ ThreadAt("L89")
    /\ thread_pc' = "L91"
    /\ UNCHANGED <<shared, loaderVars, locals, elapsed, calls, spawns, runs,
                   access, probeVars>>

\* Mutant: the sleep never returns.
Wake_never ==
    /\ ThreadAt("L89")
    /\ elapsed > SleepSeconds + MaxOversleep
    /\ thread_pc' = "L91"
    /\ UNCHANGED <<shared, loaderVars, locals, elapsed, calls, spawns, runs,
                   access, probeVars>>

\* sleep_for returns once at least its duration has passed.
Wake ==
    /\ ThreadAt("L89")
    /\ elapsed >= SleepSeconds
    /\ thread_pc' = "L91"
    /\ UNCHANGED <<shared, loaderVars, locals, elapsed, calls, spawns, runs,
                   access, probeVars>>

ThreadStartingLog ==
    /\ LogStep("L91", "L92", "Starting native tests now.", <<>>)
    /\ Touch("thread", {"log"})
    /\ UNCHANGED locals

\* run_all_tests();
ThreadCallDriver ==
    /\ ThreadAt("L92")
    /\ runs' = runs + 1
    /\ thread_pc' = "L55"
    /\ UNCHANGED <<shared, loaderVars, locals, elapsed, calls, spawns, access,
                   probeVars>>

(***************************************************************************)
(* The driver routine run_all_tests, one step per statement.               *)
(***************************************************************************)
DriverBanner ==
    /\ LogStep("L55", "L57", "--- Running Native Tests ---", <<>>)
    /\ Touch("thread", {"log"})
    /\ UNCHANGED locals

Test1Expected ==
    /\ LogStep("L57", "L58", ExpectedFmt[1], <<>>)
    /\ Touch("thread", {"log"})
    /\ UNCHANGED locals

\* Mutant: the result is also stored in the process-wide counter.
Test1Call_global ==
    /\ ThreadAt("L58")
    /\ \E o \in test_simple_function(5, 7) :
         /\ fault' = o.trap
         /\ simple_result' = IF o.trap THEN simple_result ELSE Some(o.val)
         /\ g_test_variable' = o.val
    /\ Called("test_simple_function")
    /\ thread_pc' = "L59"
    /\ Touch("thread", {"simple_result", "g_test_variable"})
    /\ UNCHANGED <<log, host, loaderVars, data, out_val, instance,
                   instance_result, static_result, elapsed, spawns, runs,
                   probeVars>>

Test1Call ==
    /\ ThreadAt("L58")
    /\ \E o \in test_simple_function(5, 7) :
         /\ fault' = o.trap
         /\ simple_result' = IF o.trap THEN simple_result ELSE Some(o.val)
    /\ Called("test_simple_function")
    /\ thread_pc' = "L59"
    /\ Touch("thread", {"simple_result"})
    /\ UNCHANGED <<g_test_variable, log, host, loaderVars, data, out_val,
                   instance, instance_result, static_result, elapsed, spawns,
                   runs, probeVars>>

Test1Actual ==
    /\ LogStep("L59", "L61", ActualFmt[1], <<simple_result.val>>)
    /\ Touch("thread", {"log", "simple_result"})
    /\ UNCHANGED locals

\* TestData data = { .id = 10, .value = 42.5 };
Test2Data ==
    /\ ThreadAt("L61")
    /\ data' = Some([id |-> 10, value |-> Fin(85, -1)])
    /\ thread_pc' = "L62"
    /\ Touch("thread", {"data"})
    /\ UNCHANGED <<shared, loaderVars, simple_result, out_val, instance,
                   instance_result, static_result, elapsed, calls, spawns,
                   runs, probeVars>>

Test2Calling ==
    /\ LogStep("L62", "L63",
         "[Test 2] Calling test_struct_by_pointer. Initial values: id=10, value=42.5",
         <<>>)
    /\ Touch("thread", {"log"})
    /\ UNCHANGED locals

Test2Expected ==
    /\ LogStep("L63", "L64", ExpectedFmt[2], <<>>)
    /\ Touch("thread", {"log"})
    /\ UNCHANGED locals

Test2Call ==
    /\ ThreadAt("L64")
    /\ \E o \in test_struct_by_pointer("&data", data.val) :
         /\ fault' = o.trap
         /\ data' = Some(o.d)
    /\ Called("test_struct_by_pointer")
    /\ thread_pc' = "L65"
    /\ Touch("thread", {"data"})
    /\ UNCHANGED <<g_test_variable, log, host, loaderVars, simple_result,
                   out_val, instance, instance_result, static_result, elapsed,
                   spawns, runs, probeVars>>

Test2Actual ==
    /\ LogStep("L65", "L67", ActualFmt[2], <<data.val.id, data.val.value>>)
    /\ Touch("thread", {"log", "data"})
    /\ UNCHANGED locals

\* int out_val = 0;
Test3OutVal ==
    /\ ThreadAt("L67")
    /\ out_val' = Some(0)
    /\ thread_pc' = "L68"
    /\ Touch("thread", {"out_val"})
    /\ UNCHANGED <<shared, loaderVars, simple_result, data, instance,
                   instance_result, static_result, elapsed, calls, spawns,
                   runs, probeVars>>

Test3Expected ==
    /\ LogStep("L68", "L69", ExpectedFmt[3], <<>>)
    /\ Touch("thread", {"log"})
    /\ UNCHANGED locals

\* test_pointer_args("Hello from C++", &out_val); the result is discarded.
Test3Call ==
    /\ ThreadAt("L69")
    /\ out_val' =
         Some(test_pointer_args("Hello from C++", "&out_val", out_val.val).out)
    /\ Called("test_pointer_args")
    /\ thread_pc' = "L70"
    /\ Touch("thread", {"out_val"})
    /\ UNCHANGED <<shared, loaderVars, simple_result, data, instance,
                   instance_result, static_result, elapsed, spawns, runs,
                   probeVars>>

Test3Actual ==
    /\ LogStep("L70", "L72", ActualFmt[3], <<out_val.val>>)
    /\ Touch("thread", {"log", "out_val"})
    /\ UNCHANGED locals

\* TestClass instance(42); the constructor logs.
Test4Construct ==
    /\ LogStep("L72", "L73", "TestClass instance created with m_value = %d",
         <<TestClass(42).m_value>>)
    /\ instance' = Some(TestClass(42))
    /\ Touch("thread", {"log", "instance"})
    /\ UNCHANGED <<simple_result, data, out_val, instance_result,
                   static_result>>

Test4Expected ==
    /\ LogStep("L73", "L74", ExpectedFmt[4], <<>>)
    /\ Touch("thread", {"log"})
    /\ UNCHANGED locals

Test4Call ==
    /\ ThreadAt("L74")
    /\ \E o \in instance_method(instance.val, 10) :
         /\ fault' = o.trap
         /\ instance_result' = IF o.trap THEN instance_result ELSE Some(o.val)
    /\ Called("instance_method")
    /\ thread_pc' = "L75"
    /\ Touch("thread", {"instance", "instance_result"})
    /\ UNCHANGED <<g_test_variable, log, host, loaderVars, simple_result, data,
                   out_val, instance, static_result, elapsed, spawns, runs,
                   probeVars>>

Test4Actual ==
    /\ LogStep("L75", "L77", ActualFmt[4], <<instance_result.val>>)
    /\ Touch("thread", {"log", "instance_result"})
    /\ UNCHANGED locals

Test5Expected ==
    /\ LogStep("L77", "L78", ExpectedFmt[5], <<>>)
    /\ Touch("thread", {"log"})
    /\ UNCHANGED locals

Test5Call ==
    /\ ThreadAt("L78")
    /\ static_result' = Some(static_method)
    /\ Called("static_method")
    /\ thread_pc' = "L79"
    /\ Touch("thread", {"static_result"})
    /\ UNCHANGED <<shared, loaderVars, simple_result, data, out_val, instance,
                   instance_result, elapsed, spawns, runs, probeVars>>

Test5Actual ==
    /\ LogStep("L79", "L82", ActualFmt[5], <<static_result.val>>)
    /\ Touch("thread", {"log", "static_result"})
    /\ UNCHANGED locals

DriverFinished ==
    /\ LogStep("L82", "L83", "--- Native Tests Finished ---", <<>>)
    /\ Touch("thread", {"log"})
    /\ UNCHANGED locals

\* run_all_tests returns, its locals go out of scope, and the thread function
\* returns: the thread ends.
ThreadExit ==
    /\ ThreadAt("L83")
    /\ thread_pc' = "done"
    /\ simple_result' = None
    /\ data' = None
    /\ out_val' = None
    /\ instance' = None
    /\ instance_result' = None
    /\ static_result' = None
    /\ Touch("thread", {"instance"})
    /\ UNCHANGED <<shared, loaderVars, elapsed, calls, spawns, runs, probeVars>>

DriverNext ==
    \/ DriverBanner
    \/ Test1Expected \/ Test1Call \/ Test1Actual
    \/ Test2Data \/ Test2Calling \/ Test2Expected \/ Test2Call \/ Test2Actual
    \/ Test3OutVal \/ Test3Expected \/ Test3Call \/ Test3Actual
    \/ Test4Construct \/ Test4Expected \/ Test4Call \/ Test4Actual
    \/ Test5Expected \/ Test5Call \/ Test5Actual
    \/ DriverFinished

ThreadNext ==
    \/ ThreadStartLog
    \/ Wake
    \/ ThreadStartingLog
    \/ ThreadCallDriver
    \/ DriverNext
    \/ ThreadExit

\* The host process exits; every thread of it ends.
HostExit ==
    /\ Running
    /\ host' = "exited"
    /\ UNCHANGED <<g_test_variable, log, fault, loaderVars, locals, threadVars,
                   access, probeVars>>

Next ==
    \/ LoaderNext
    \/ ThreadNext
    \/ Tick
    \/ HostExit

Spec == Init /\ [][Next]_vars

\* The scheduler runs every runnable thread, and time passes.
FairSpec ==
    /\ Spec
    /\ WF_vars(LoaderNext)
    /\ WF_vars(ThreadNext)
    /\ WF_vars(Tick)

(***************************************************************************)
(* The probe surfaces called directly (they are exported for lookup by     *)
(* name), on objects the caller owns, with inputs drawn from sample sets.  *)
(***************************************************************************)
\* Successive mutations of the caller's record that are explored.
MaxCalls == 3

ASamples == {INT_MIN, -1, 5, INT_MAX}

BSamples == {-1, 1, 7}

IdSamples == {10, INT_MAX}

ValueSamples == {Fin(85, -1), Fin(0, 0), Fin(-85, 1016), Inf(1), NaN}

OutSamples == {0, 999}

StrSamples == {"Hello from C++", "", NULL}

InitialSamples == {42, -1, INT_MIN}

MultiplierSamples == {-1, 10, INT_MAX}

ProbeInit ==
    /\ g_test_variable = 100
    /\ log = <<>>
    /\ fault = FALSE
    /\ host = "running"
    /\ loader_pc = "loaded"
    /\ test_thread = "none"
    /\ thread_pc = "done"
    /\ elapsed = 0
    /\ simple_result = None
    /\ \E i \in IdSamples, v \in ValueSamples :
         /\ data = Some([id |-> i, value |-> v])
         /\ init0 = [data |-> data, initial |-> None]
    /\ \E o \in OutSamples : out_val = Some(o)
    /\ instance = None
    /\ instance_result = None
    /\ static_result = None
    /\ calls = [p \in Probes |-> <<>>]
    /\ spawns = 0
    /\ runs = 0
    /\ access = {}
    /\ last = NoCall
    /\ nmut = 0
    /\ results = {}

Pre ==
    [g |-> g_test_variable, log |-> log, data |-> data, out_val |-> out_val,
     instance |-> instance]

CallSimple ==
    /\ Running
    /\ \E a \in ASamples, b \in BSamples :
         \E o \in test_simple_function(a, b) :
           /\ fault' = o.trap
           /\ last' = [NoCall EXCEPT !.op = "test_simple_function", !.a = a,
                         !.b = b, !.trap = o.trap, !.ret = o.val, !.pre = Pre]
    /\ UNCHANGED <<g_test_variable, log, host, loaderVars, locals, threadVars,
                   access, init0, nmut, results>>

CallStructByPointer ==
    /\ Running
    /\ nmut < MaxCalls
    /\ \E p \in {NULL, "&data"} :
         \E o \in test_struct_by_pointer(p, data.val) :
           /\ fault' = o.trap
           /\ data' = Some(o.d)
           /\ nmut' = IF p # NULL THEN nmut + 1 ELSE nmut
           /\ last' = [NoCall EXCEPT !.op = "test_struct_by_pointer", !.p = p,
                         !.trap = o.trap, !.pre = Pre]
    /\ UNCHANGED <<g_test_variable, log, host, loaderVars, simple_result,
                   out_val, instance, instance_result, static_result,
                   threadVars, access, init0, results>>

CallPointerArgs ==
    /\ Running
    /\ \E s \in StrSamples, p \in {NULL, "&out_val"} :
         LET r == test_pointer_args(s, p, out_val.val) IN
           /\ out_val' = Some(r.out)
           /\ last' = [NoCall EXCEPT !.op = "test_pointer_args", !.s = s,
                         !.p = p, !.rets = r.ret, !.pre = Pre]
    /\ UNCHANGED <<shared, loaderVars, simple_result, data, instance,
                   instance_result, static_result, threadVars, access, init0,
                   nmut, results>>

\* TestClass instance(initial); the constructor logs.
CallConstruct ==
    /\ Running
    /\ instance = None
    /\ \E initial \in InitialSamples :
         /\ instance' = Some(TestClass(initial))
         /\ Log("TestClass instance created with m_value = %d",
                <<TestClass(initial).m_value>>)
         /\ init0' = [init0 EXCEPT !.initial = Some(initial)]
         /\ last' = [NoCall EXCEPT !.op = "TestClass", !.a = initial,
                       !.pre = Pre]
    /\ UNCHANGED <<g_test_variable, fault, host, loaderVars, simple_result,
                   data, out_val, instance_result, static_result, threadVars,
                   access, nmut, results>>

CallInstanceMethod ==
    /\ Running
    /\ instance # None
    /\ \E m \in MultiplierSamples :
         \E o \in instance_method(instance.val, m) :
           /\ fault' = o.trap
           /\ results' = IF o.trap THEN results
                         ELSE results \cup {<<m, o.val>>}
           /\ last' = [NoCall EXCEPT !.op = "instance_method", !.a = m,
                         !.trap = o.trap, !.ret = o.val,
                         !.rep = (\E r \in results : r[1] = m), !.pre = Pre]
    /\ UNCHANGED <<g_test_variable, log, host, loaderVars, locals, threadVars,
                   access, init0, nmut>>

CallStaticMethod ==
    /\ Running
    /\ last' = [NoCall EXCEPT !.op = "static_method", !.rets = static_method,
                  !.pre = Pre]
    /\ UNCHANGED <<shared, loaderVars, locals, threadVars, access, init0, nmut,
                   results>>

ProbeNext ==
    \/ CallSimple
    \/ CallStructByPointer
    \/ CallPointerArgs
    \/ CallConstruct
    \/ CallInstanceMethod
    \/ CallStaticMethod

ProbeSpec == ProbeInit /\ [][ProbeNext]_vars

(***************************************************************************)
(* Properties of the probe surfaces, checked under ProbeSpec.              *)
(***************************************************************************)
\* The state outside the caller's record is as it was before the last call.
OutsideRecordUnchanged ==
    /\ g_test_variable = last.pre.g
    /\ log = last.pre.log
    /\ out_val = last.pre.out_val
    /\ instance = last.pre.instance

\* C1 as stated: for all integers a and b, test_simple_function(a, b) returns
\* the sum a + b and changes no other state.  (The result is an int, so it is
\* the sum only if the sum is an int.)
C1_SumOfAnyInts ==
    last.op = "test_simple_function" =>
        /\ ~last.trap
        /\ ~AddOverflows(last.a, last.b)
        /\ last.ret = last.a + last.b
        /\ Pre = last.pre

\* C1 amended: for all ints a and b whose sum is within [INT_MIN, INT_MAX],
\* test_simple_function(a, b) returns a + b, does not trap and changes no
\* other state.
C1_SumWhenRepresentable ==
    (last.op = "test_simple_function" /\ ~AddOverflows(last.a, last.b)) =>
        /\ ~last.trap
        /\ ~fault
        /\ last.ret = last.a + last.b
        /\ Pre = last.pre

C1_Witness ==
    /\ last.op = "test_simple_function"
    /\ last.a = 5
    /\ last.b = 7
    /\ last.ret = 12
    /\ log # <<>>

\* The real number v * 2^n.
Scale(v, n) == IF v.k = "fin" /\ v.m # 0 THEN Fin(v.m, v.e + n) ELSE v

\* i + n is an int.
IdFits(i, n) == i <= INT_MAX - n

\* v is finite and v * 2^n is within the range of finite doubles.
ValueFits(v, n) == v.k = "fin" /\ (v.m = 0 \/ DblInRange(v.m, v.e + n))

\* C2 as stated: after n successive calls of test_struct_by_pointer on a
\* present record first holding (i, v), the identifier is i + n and the
\* measurement is v * 2^n, and nothing outside the record changes.
C2_AnyRecord ==
    /\ IdFits(init0.data.val.id, nmut)
    /\ data.val.id = init0.data.val.id + nmut
    /\ data.val.value = Scale(init0.data.val.value, nmut)
    /\ last.op = "test_struct_by_pointer" => OutsideRecordUnchanged

\* C2 amended: after n successive calls of test_struct_by_pointer on a present
\* record first holding (i, v) with i + n <= INT_MAX, no call trapped, the
\* identifier is i + n and, if v is finite and v * 2^n is within the range of
\* finite doubles, the measurement is v * 2^n; a call changes nothing outside
\* the record.
C2_WhenRepresentable ==
    /\ IdFits(init0.data.val.id, nmut) =>
        /\ last.op = "test_struct_by_pointer" => ~last.trap
        /\ data.val.id = init0.data.val.id + nmut
        /\ ValueFits(init0.data.val.value, nmut) =>
             data.val.value = Scale(init0.data.val.value, nmut)
    /\ last.op = "test_struct_by_pointer" => OutsideRecordUnchanged

C2_Witness ==
    /\ nmut = MaxCalls
    /\ init0.data.val = [id |-> 10, value |-> Fin(85, -1)]
    /\ data.val = [id |-> 10 + MaxCalls, value |-> Fin(85, MaxCalls - 1)]
    /\ last.op = "test_struct_by_pointer"
    /\ last.p # NULL

\* C3: test_pointer_args returns its input string unchanged, and a present
\* output parameter holds 500 after the call whatever it held before.
C3_EchoAndConstant ==
    last.op = "test_pointer_args" =>
        /\ last.rets = last.s
        /\ last.p # NULL => out_val = Some(500)

C3_Witness ==
    /\ last.op = "test_pointer_args"
    /\ last.p # NULL
    /\ last.pre.out_val = Some(999)
    /\ last.s = ""
    /\ last.rets = ""
    /\ out_val = Some(500)

\* C4: a null reference argument is a silent no-op: test_struct_by_pointer(NULL)
\* and test_pointer_args(s, NULL) leave all state as it was, write no log line
\* and do not fault, and test_pointer_args(s, NULL) still returns s.
C4_NullIsNoOp ==
    /\ (last.op = "test_struct_by_pointer" /\ last.p = NULL) =>
         /\ Pre = last.pre
         /\ ~last.trap
         /\ ~fault
    /\ (last.op = "test_pointer_args" /\ last.p = NULL) =>
         /\ Pre = last.pre
         /\ ~fault
         /\ last.rets = last.s

C4_Witness ==
    /\ last.op = "test_struct_by_pointer"
    /\ last.p = NULL
    /\ nmut > 0
    /\ log # <<>>
    /\ data = last.pre.data

\* results is the graph of a function of the multiplier.
SameResultForSameMultiplier ==
    \A r1 \in results, r2 \in results : r1[1] = r2[1] => r1[2] = r2[2]

\* C5 as stated: for an instance built with s and all integers m,
\* instance_method(m) returns s * m and has no side effect: the field stays s
\* and repeated calls with the same m return the same result.
C5_ProductOfAnyInts ==
    /\ last.op = "instance_method" =>
         /\ ~last.trap
         /\ ~MulOverflows(init0.initial.val, last.a)
         /\ last.ret = init0.initial.val * last.a
         /\ Pre = last.pre
    /\ instance # None => instance.val.m_value = init0.initial.val
    /\ SameResultForSameMultiplier

\* C5 amended: for an instance built with s and all ints m whose product s * m
\* is within [INT_MIN, INT_MAX], instance_method(m) returns s * m without
\* trapping; no call has a side effect: the field stays s, and repeated calls
\* with such an m return the same result.
C5_ProductWhenRepresentable ==
    /\ (last.op = "instance_method"
          /\ ~MulOverflows(init0.initial.val, last.a)) =>
         /\ ~last.trap
         /\ ~fault
         /\ last.ret = init0.initial.val * last.a
    /\ (last.op = "instance_method" /\ ~last.trap) => Pre = last.pre
    /\ instance # None => instance.val.m_value = init0.initial.val
    /\ \A r \in results :
         ~MulOverflows(init0.initial.val, r[1]) =>
             r[2] = init0.initial.val * r[1]

C5_Witness ==
    /\ last.op = "instance_method"
    /\ init0.initial = Some(42)
    /\ last.a = 10
    /\ last.ret = 420
    /\ last.rep
    /\ Cardinality(results) > 1

(***************************************************************************)
(* Properties of the load-time trigger and the driver, checked under Spec  *)
(* (C8 under FairSpec).                                                    *)
(***************************************************************************)
\* The probe surface that test n calls.
ProbeOf ==
    <<"test_simple_function", "test_struct_by_pointer", "test_pointer_args",
      "instance_method", "static_method">>

IsPairedLine(l) ==
    \E n \in 1..5 : l.fmt = ExpectedFmt[n] \/ l.fmt = ActualFmt[n]

\* The expected/actual lines of the log, in order.
PairedLog == SelectSeq(log, IsPairedLine)

\* The position in the log of the line with this format.
IndexOf(fmt) == CHOOSE i \in 1..Len(log) : log[i].fmt = fmt

\* C6: once the background task has finished, the log's expected/actual lines
\* are exactly five pairs in the order arithmetic, record mutation,
\* string/output parameter, instance method, static method; each expected line
\* was written before its probe call and each actual line after it; and the
\* actual values are 12, (11, 85.0), 500, 420 and "Original static string".
C6_FivePairsInOrder ==
    thread_pc = "done" =>
        /\ PairedLog =
             <<LogLine(ExpectedFmt[1], <<>>), LogLine(ActualFmt[1], <<12>>),
               LogLine(ExpectedFmt[2], <<>>),
               LogLine(ActualFmt[2], <<11, Fin(85, 0)>>),
               LogLine(ExpectedFmt[3], <<>>), LogLine(ActualFmt[3], <<500>>),
               LogLine(ExpectedFmt[4], <<>>), LogLine(ActualFmt[4], <<420>>),
               LogLine(ExpectedFmt[5], <<>>),
               LogLine(ActualFmt[5], <<"Original static string">>)>>
        /\ \A n \in 1..5 :
             /\ Len(calls[ProbeOf[n]]) = 1
             /\ IndexOf(ExpectedFmt[n]) <= calls[ProbeOf[n]][1]
             /\ calls[ProbeOf[n]][1] < IndexOf(ActualFmt[n])

C6_Witness ==
    /\ thread_pc = "done"
    /\ loader_pc = "loaded"
    /\ host = "running"
    /\ Len(log) = 17
    /\ Len(PairedLog) = 10

\* The load-time trigger's state: unloaded until the background task is
\* started, loaded until that task enters the driver, probe-run from then on.
LoadState ==
    IF spawns = 0 THEN "unloaded"
    ELSE IF runs = 0 THEN "loaded"
    ELSE "probe-run"

DriverPcs ==
    {"L59", "L61", "L62", "L63", "L64", "L65", "L67", "L68", "L69", "L70",
     "L72", "L73", "L74", "L75", "L77", "L78", "L79", "L82", "L83"}

C7_AtMostOnceAfterSleep ==
    /\ spawns <= 1
    /\ runs <= 1
    /\ runs = 1 => elapsed >= SleepSeconds
    /\ \A p \in Probes :
         /\ Len(calls[p]) <= 1
         /\ calls[p] # <<>> => runs = 1 /\ thread_pc \in DriverPcs \cup {"done"}
    /\ thread_pc \in {"L83", "done"} =>
         /\ runs = 1
         /\ \A p \in Probes : Len(calls[p]) = 1

\* C7: the trigger moves only unloaded -> loaded -> probe-run; run_all_tests is
\* started at most once and never before the sleep's duration has passed; each
\* probe surface is called exactly once, inside it; and once the driver has
\* returned the background task has ended and is never started again.
C7_LoadStateMachine ==
    /\ []C7_AtMostOnceAfterSleep
    /\ [][\/ LoadState' = LoadState
          \/ LoadState = "unloaded" /\ LoadState' = "loaded"
          \/ LoadState = "loaded" /\ LoadState' = "probe-run"]_vars
    /\ [][thread_pc = "done" =>
            thread_pc' = "done" /\ spawns' = spawns /\ runs' = runs
              /\ calls' = calls /\ log' = log]_vars

C7_Witness ==
    /\ thread_pc = "done"
    /\ runs = 1
    /\ spawns = 1
    /\ elapsed = SleepSeconds
    /\ \A p \in Probes : Len(calls[p]) = 1

Finished ==
    /\ thread_pc = "done"
    /\ log # <<>>
    /\ log[Len(log)].fmt = "--- Native Tests Finished ---"

\* C8: there is no cancellation: once on_library_load has started the
\* background task, the task is never blocked while the host runs, and
\* eventually either it has logged "Native Tests Finished" and ended or the
\* host process has exited.
C8_RunsToCompletion ==
    /\ [](spawns = 1 /\ thread_pc # "done" /\ host = "running" =>
            ENABLED (ThreadNext \/ Tick))
    /\ (spawns = 1) ~> (Finished \/ host = "exited")

C8_Witness ==
    /\ Finished
    /\ host = "running"
    /\ elapsed > SleepSeconds

\* C9: on_library_load does not block: whatever the background task's state,
\* the loader's next step is enabled while the host runs; it has started one
\* task and detached it before it returns, and it returns without a fault.
C9_LoaderNeverWaits ==
    /\ (loader_pc \in {"unloaded", "L97", "L98", "L99", "L100"}
          /\ host = "running") => ENABLED LoaderNext
    /\ loader_pc \in {"unloaded", "L97", "L98"} =>
         spawns = 0 /\ thread_pc = "none"
    /\ loader_pc \in {"L99", "L100", "loaded"} => spawns = 1
    /\ loader_pc = "L100" => test_thread = "detached"
    /\ ~fault

C9_Witness ==
    /\ loader_pc = "loaded"
    /\ thread_pc = "L87"
    /\ runs = 0
    /\ elapsed = 0
    /\ host = "running"

DriverLocals ==
    {"simple_result", "data", "out_val", "instance", "instance_result",
     "static_result"}

\* C10: the driver's locals (the record and the TestClass instance among them)
\* are read and written only by the background task, the loader touches none
\* of them, and no unit of control reads or writes g_test_variable, which
\* stays 100.
C10_NoSharedState ==
    /\ g_test_variable = 100
    /\ \A x \in access :
         /\ x[2] # "g_test_variable"
         /\ x[2] \in DriverLocals => x[1] = "thread"
         /\ x[1] = "loader" => x[2] \in {"log", "test_thread"}
         /\ x[1] = "thread" => x[2] \in DriverLocals \cup {"log"}

C10_Witness ==
    /\ thread_pc = "done"
    /\ loader_pc = "loaded"
    /\ {<<"thread", "data">>, <<"thread", "instance">>,
        <<"loader", "test_thread">>} \subseteq access

====
